---- MODULE Spec2Model ----
(***************************************************************************)
(* Verification model of the painclinics batch scripts:                    *)
(*   scripts/cms-medicare/match-clinics.py      (normalisers, matcher)     *)
(*   scripts/cms-medicare/download-and-filter.py (registry filter)         *)
(*   scripts/crawl-insurance/crawl.py           (crawler / extractor)      *)
(* Strings are TLA+ strings; a character is a string of length 1.          *)
(***************************************************************************)
EXTENDS Integers, Sequences, FiniteSets, TLC

VARIABLES
    script,      \* which script this run executes
    nfun,        \* normaliser under test: "name", "address" or "phone"
    nraw,        \* the raw input string handed to the normaliser
    nout,        \* the successive results of applying the normaliser
    nppes,       \* matcher: the registry table as load_nppes returns it
    clinics,     \* matcher: the clinic list as load_clinics returns it
    mpos,        \* matcher: number of clinics the loop of match_clinics has handled
    matches,     \* matcher: the list of MatchResults
    stats,       \* matcher: the tallies per tier and of unmatched clinics
    scan,        \* matcher: what the latest loop iteration saw and did
    mpc,         \* matcher: where main is: "matching", "reported" or the error it ended in
    summary,     \* matcher: the summary main printed, empty before it is printed
    csv,         \* filter: the rows of the registry file, in file order
    clinic_zips, \* filter: the postal-code set handed to filter_nppes
    fpos,        \* filter: number of rows the chunk loop has read
    chunks,      \* filter: the list of non-empty filtered chunks
    counters,    \* filter: total_rows and kept_rows
    fresult,     \* filter: the frame filter_nppes returned, once it has
    args,            \* crawler: the command-line arguments
    all_clinics,     \* crawler: the clinic ids of the input file, in file order
    file_at_start,   \* crawler: the checkpoint file as the run found it
    results_file,    \* crawler: the checkpoint file (content by clinic id, writes so far)
    existing_results,\* crawler: the in-memory result table of main
    remaining,       \* crawler: the clinic ids main still has to process
    cpc,             \* crawler: where main is: "start", "batch", "gather", "done"
    batch_start,     \* crawler: the loop variable of the batch loop
    tasks,           \* crawler: the process_clinic tasks launched so far
    semaphore,       \* crawler: the value of the asyncio.Semaphore
    website,              \* site crawl: the url handed to crawl_clinic_website
    base_url,             \* site crawl: the url after normalisation
    site_root,            \* site crawl: scheme and host of base_url
    wpc,                  \* site crawl: where the function is: "main", "paths", "fallback", "returned"
    path_idx,             \* site crawl: position of the sub-path loop in INSURANCE_PAGE_PATHS
    fetched,              \* site crawl: the urls handed to crawler.arun so far, in order
    pages,                \* site crawl: what each of those fetches gave
    collected_content,    \* site crawl: the labels of the excerpts collected so far
    found_insurance_page, \* site crawl: the flag of the sub-path loop
    crawl_result          \* site crawl: what the function returned

varsNormalize == <<nfun, nraw, nout>>

varsMatcher == <<nppes, clinics, mpos, matches, stats, scan, mpc, summary>>

varsFilter == <<csv, clinic_zips, fpos, chunks, counters, fresult>>

varsSite ==
    <<website, base_url, site_root, wpc, path_idx, fetched, pages, collected_content,
      found_insurance_page, crawl_result>>

varsCrawler ==
    <<args, all_clinics, file_at_start, results_file, existing_results, remaining,
      cpc, batch_start, tasks, semaphore, varsSite>>

vars == <<script, varsNormalize, varsMatcher, varsFilter, varsCrawler>>

(***************************************************************************)
(* Bounds                                                                  *)
(***************************************************************************)
MaxTokens == 3      \* tokens concatenated into one normaliser input
MaxApply == 2       \* how many times a normaliser is applied in a row
MaxRows == 3        \* rows of the registry pool a matcher run may load
MaxClinics == 2     \* clinic records in a matcher run
MaxCsvRows == 3     \* rows of the registry file in a filter run
ChunkRows == 2      \* rows per chunk in a filter run (chunksize)
MaxInput == 3       \* clinics in the input file of a crawler run

(***************************************************************************)
(* Characters and string helpers (Python str / re semantics, ASCII)        *)
(***************************************************************************)
UpperLetters == "ABCDEFGHIJKLMNOPQRSTUVWXYZ"
LowerLetters == "abcdefghijklmnopqrstuvwxyz"
Digits == "0123456789"

Char(s, i) == SubSeq(s, i, i)

Chars(s) == {Char(s, i) : i \in 1..Len(s)}

DigitChars == Chars(Digits)

UpperChars == Chars(UpperLetters)

\* \w of the re module
WordChars == Chars(LowerLetters) \cup UpperChars \cup DigitChars \cup {"_"}

\* \s of the re module, and the characters str.strip() removes
SpaceChars == {" ", "\t", "\n", "\r"}

LowerOf ==
    [c \in UpperChars |->
        Char(LowerLetters, CHOOSE i \in 1..Len(UpperLetters) : Char(UpperLetters, i) = c)]

IsDigit(c) == c \in DigitChars

IsWord(c) == c \in WordChars

IsSpace(c) == c \in SpaceChars

LowerChar(c) == IF c \in UpperChars THEN LowerOf[c] ELSE c

RECURSIVE lower(_)
lower(s) ==
    IF s = "" THEN "" ELSE LowerChar(Char(s, 1)) \o lower(SubSeq(s, 2, Len(s)))

RECURSIVE lstrip(_)
lstrip(s) ==
    IF s # "" /\ IsSpace(Char(s, 1)) THEN lstrip(SubSeq(s, 2, Len(s))) ELSE s

RECURSIVE rstrip(_)
rstrip(s) ==
    IF s # "" /\ IsSpace(Char(s, Len(s))) THEN rstrip(SubSeq(s, 1, Len(s) - 1)) ELSE s

strip(s) == rstrip(lstrip(s))

startswith_at(s, p, k) ==
    /\ p + Len(k) - 1 <= Len(s)
    /\ SubSeq(s, p, p + Len(k) - 1) = k

endswith(s, suffix) ==
    /\ Len(suffix) <= Len(s)
    /\ SubSeq(s, Len(s) - Len(suffix) + 1, Len(s)) = suffix

\* re.sub(r"\D", "", s)
RECURSIVE sub_nondigit(_)
sub_nondigit(s) ==
    IF s = "" THEN ""
    ELSE (IF IsDigit(Char(s, 1)) THEN Char(s, 1) ELSE "") \o sub_nondigit(SubSeq(s, 2, Len(s)))

\* re.sub(r"[^\w\s]", "", s)
RECURSIVE sub_punct(_)
sub_punct(s) ==
    IF s = "" THEN ""
    ELSE (IF IsWord(Char(s, 1)) \/ IsSpace(Char(s, 1)) THEN Char(s, 1) ELSE "")
         \o sub_punct(SubSeq(s, 2, Len(s)))

\* re.sub(r"\s+", " ", s)
RECURSIVE sub_spaces(_)
sub_spaces(s) ==
    IF s = "" THEN ""
    ELSE IF IsSpace(Char(s, 1))
         THEN " " \o sub_spaces(lstrip(s))
         ELSE Char(s, 1) \o sub_spaces(SubSeq(s, 2, Len(s)))

\* str.replace(full, abbr): every non-overlapping occurrence, left to right
RECURSIVE replace(_, _, _)
replace(s, full, abbr) ==
    IF s = "" THEN ""
    ELSE IF startswith_at(s, 1, full)
         THEN abbr \o replace(SubSeq(s, Len(full) + 1, Len(s)), full, abbr)
         ELSE Char(s, 1) \o replace(SubSeq(s, 2, Len(s)), full, abbr)

(***************************************************************************)
(* match-clinics.py: normalisers                                           *)
(***************************************************************************)
normalize_phone_any_length(phone) ==
    LET digits == sub_nondigit(phone)
    IN  IF Len(digits) >= 10 THEN SubSeq(digits, Len(digits) - 9, Len(digits)) ELSE digits

normalize_phone(phone) ==
    LET digits == sub_nondigit(phone)
    IN  IF Len(digits) >= 10 THEN SubSeq(digits, Len(digits) - 9, Len(digits)) ELSE ""

NAME_SUFFIXES ==
    << ", llc", " llc", ", inc", " inc", ", pc", " pc", ", md", " md",
       ", pa", " pa", ", pllc", " pllc", ", do", " do",
       " corp", " corporation", " associates", " group",
       " medical center", " medical", " center",
       " pain management", " pain clinic", " pain",
       " clinic", " clinics", " practice", " healthcare",
       " health", " wellness", " rehab", " rehabilitation" >>

\* the suffix loop: every suffix of the list is tried once, in list order,
\* against the name as the earlier iterations left it
strip_first_suffix(name, k) ==
    LET hits == {j \in k..Len(NAME_SUFFIXES) : endswith(name, NAME_SUFFIXES[j])}
    IN  IF hits = {} THEN name
        ELSE LET j == CHOOSE h \in hits : \A g \in hits : h <= g
             IN  SubSeq(name, 1, Len(name) - Len(NAME_SUFFIXES[j]))

RECURSIVE strip_suffixes(_, _)
strip_suffixes(name, k) ==
    IF k > Len(NAME_SUFFIXES) THEN name
    ELSE IF endswith(name, NAME_SUFFIXES[k])
         THEN strip_suffixes(SubSeq(name, 1, Len(name) - Len(NAME_SUFFIXES[k])), k + 1)
         ELSE strip_suffixes(name, k + 1)

normalize_name(name) ==
    strip(sub_spaces(sub_punct(strip_suffixes(strip(lower(name)), 1))))

ADDRESS_REPLACEMENTS ==
    << <<" street", " st">>, <<" avenue", " ave">>, <<" boulevard", " blvd">>,
       <<" drive", " dr">>, <<" road", " rd">>, <<" lane", " ln">>,
       <<" court", " ct">>, <<" place", " pl">>, <<" suite", " ste">>,
       <<" north", " n">>, <<" south", " s">>, <<" east", " e">>, <<" west", " w">>,
       <<" northwest", " nw">>, <<" northeast", " ne">>,
       <<" southwest", " sw">>, <<" southeast", " se">> >>

RECURSIVE apply_replacements(_, _)
apply_replacements(addr, k) ==
    IF k > Len(ADDRESS_REPLACEMENTS) THEN addr
    ELSE apply_replacements(
             replace(addr, ADDRESS_REPLACEMENTS[k][1], ADDRESS_REPLACEMENTS[k][2]), k + 1)

UNIT_WORDS == << "ste", "suite", "unit", "apt", "#" >>

\* \b at position p: exactly one of the characters around p is a word character
word_boundary(s, p) ==
    LET before == p > 1 /\ IsWord(Char(s, p - 1))
        after  == p <= Len(s) /\ IsWord(Char(s, p))
    IN  before # after

RECURSIVE skip_spaces(_, _)
skip_spaces(s, p) ==
    IF p <= Len(s) /\ IsSpace(Char(s, p)) THEN skip_spaces(s, p + 1) ELSE p

RECURSIVE skip_word(_, _)
skip_word(s, p) ==
    IF p <= Len(s) /\ IsWord(Char(s, p)) THEN skip_word(s, p + 1) ELSE p

\* last position of a match of \b(ste|suite|unit|apt|#)\s*\w+ starting at p, or 0
unit_match_end(s, p) ==
    LET hits == {k \in 1..Len(UNIT_WORDS) : startswith_at(s, p, UNIT_WORDS[k])}
    IN  IF ~word_boundary(s, p) \/ hits = {} THEN 0
        ELSE LET k == CHOOSE h \in hits : \A h2 \in hits : h <= h2
                 q == skip_spaces(s, p + Len(UNIT_WORDS[k]))
             IN  IF q <= Len(s) /\ IsWord(Char(s, q)) THEN skip_word(s, q) - 1 ELSE 0

\* re.sub(r"\b(ste|suite|unit|apt|#)\s*\w+", "", s)
RECURSIVE sub_units(_, _)
sub_units(s, p) ==
    IF p > Len(s) THEN ""
    ELSE LET e == unit_match_end(s, p)
         IN  IF e > 0 THEN sub_units(s, e + 1)
             ELSE Char(s, p) \o sub_units(s, p + 1)

normalize_address(addr) ==
    strip(sub_spaces(sub_punct(sub_units(apply_replacements(strip(lower(addr)), 1), 1))))

(***************************************************************************)
(* match-clinics.py: registry loading, indexes and the tiered matcher      *)
(***************************************************************************)
NAME_MATCH_THRESHOLD == 70

ADDRESS_MATCH_THRESHOLD == 75

\* s[:5]
first5(s) == SubSeq(s, 1, IF Len(s) < 5 THEN Len(s) ELSE 5)

\* one row of the frame load_nppes returns; the row number stands for the NPI
load_row(raw, i) ==
    [ NPI                |-> i,
      entityType         |-> raw.entity,
      phone              |-> raw.phone,
      phone_normalized   |-> normalize_phone(raw.phone),
      zip5               |-> first5(raw.zip),
      name_normalized    |-> IF raw.entity = "1"
                             THEN strip(sub_spaces(lower(raw.first) \o " " \o lower(raw.last)))
                             ELSE normalize_name(raw.org),
      address_normalized |-> normalize_address(raw.addr) ]

load_nppes(rawrows) == [i \in 1..Len(rawrows) |-> load_row(rawrows[i], i)]

\* the row numbers i..Len(tbl) whose column col holds key, in row order
RECURSIVE rows_from(_, _, _, _)
rows_from(tbl, col, key, i) ==
    IF i > Len(tbl) THEN <<>>
    ELSE (IF tbl[i][col] = key THEN <<i>> ELSE <<>>) \o rows_from(tbl, col, key, i + 1)

build_phone_index(tbl) ==
    LET keys == {tbl[i].phone_normalized : i \in 1..Len(tbl)}
    IN  [k \in {p \in keys : p # "" /\ Len(p) = 10} |-> rows_from(tbl, "phone_normalized", k, 1)]

build_zip_index(tbl) ==
    LET keys == {tbl[i].zip5 : i \in 1..Len(tbl)}
    IN  [k \in {z \in keys : z # "" /\ Len(z) = 5} |-> rows_from(tbl, "zip5", k, 1)]

\* zip_index.get(clinic_zip, [])
zip_candidates(zip_index, clinic_zip) ==
    IF clinic_zip \in DOMAIN zip_index THEN zip_index[clinic_zip] ELSE <<>>

\* the locals an iteration of the loop of match_clinics starts with
clinic_locals(clinic) ==
    [ clinic_id     |-> clinic.id,
      clinic_phones |-> clinic.phones,
      clinic_zip    |-> first5(clinic.postalCode),
      clinic_name   |-> normalize_name(clinic.title),
      clinic_addr   |-> normalize_address(clinic.streetAddress) ]

\* best_match = None, best_tier = None, best_score = 0
NoMatch == [row |-> 0, tier |-> "none", score |-> 0]

\* the key a clinic phone is looked up under in the phone index
phone_lookup_key(phone) == phone

\* Tier 1: the first clinic phone found in the index wins with its first row
RECURSIVE phone_tier(_, _, _)
phone_tier(clinic_phones, phone_index, k) ==
    IF k > Len(clinic_phones) THEN NoMatch
    ELSE IF phone_lookup_key(clinic_phones[k]) \in DOMAIN phone_index
         THEN [row |-> phone_index[phone_lookup_key(clinic_phones[k])][1],
               tier |-> "phone", score |-> 100]
         ELSE phone_tier(clinic_phones, phone_index, k + 1)

\* a scan that also replaces the running best on an equal score
beats_or_ties(score, threshold, best) == score >= threshold /\ score >= best.score

\* a scan that takes a candidate only above the threshold
beats_strict(score, threshold, best) == score > threshold /\ score > best.score

\* score >= THRESHOLD and score > best_score
beats(score, threshold, best) == score >= threshold /\ score > best.score

\* the candidate loop of tiers 2 and 3 from candidate k on: col is the
\* normalised column, scores the similarity of the clinic to every candidate
RECURSIVE scan_candidates(_, _, _, _, _, _, _, _)
scan_candidates(tbl, cands, k, col, scores, threshold, tier, best) ==
    IF k > Len(cands) THEN best
    ELSE LET r == cands[k]
         IN  IF tbl[r][col] = ""
             THEN scan_candidates(tbl, cands, k + 1, col, scores, threshold, tier, best)
             ELSE IF beats(scores[r], threshold, best)
                  THEN scan_candidates(tbl, cands, k + 1, col, scores, threshold, tier,
                                       [row |-> r, tier |-> tier, score |-> scores[r]])
                  ELSE scan_candidates(tbl, cands, k + 1, col, scores, threshold, tier, best)

\* a name tier that runs whatever the phone tier found
name_tier_runs_always(best, clinic_zip, clinic_name) ==
    clinic_zip # "" /\ clinic_name # ""

\* if best_match is None and clinic_zip and clinic_name
name_tier_runs(best, clinic_zip, clinic_name) ==
    best.row = 0 /\ clinic_zip # "" /\ clinic_name # ""

\* if best_match is None and clinic_zip and clinic_addr
address_tier_runs(best, clinic_zip, clinic_addr) ==
    best.row = 0 /\ clinic_zip # "" /\ clinic_addr # ""

\* the three tiers of one iteration of the loop of match_clinics on the locals
\* c; name_scores and addr_scores are what fuzz.token_sort_ratio returns for
\* the clinic against each candidate row
match_one(tbl, phone_index, zip_index, c, name_scores, addr_scores) ==
    LET cands       == zip_candidates(zip_index, c.clinic_zip)
        after_phone == phone_tier(c.clinic_phones, phone_index, 1)
        ran_name    == name_tier_runs(after_phone, c.clinic_zip, c.clinic_name)
        after_name  == IF ran_name
                       THEN scan_candidates(tbl, cands, 1, "name_normalized", name_scores,
                                            NAME_MATCH_THRESHOLD, "name", after_phone)
                       ELSE after_phone
        ran_address == address_tier_runs(after_name, c.clinic_zip, c.clinic_addr)
        after_addr  == IF ran_address
                       THEN scan_candidates(tbl, cands, 1, "address_normalized", addr_scores,
                                            ADDRESS_MATCH_THRESHOLD, "address", after_name)
                       ELSE after_name
    IN  [ clinic |-> c.clinic_id, name_max |-> 0, addr_max |-> 0,
          after_phone |-> after_phone, ran_name |-> ran_name, after_name |-> after_name,
          ran_address |-> ran_address, best |-> after_addr ]

MatchResult(tbl, clinic_id, best) ==
    [ clinicId |-> clinic_id, npi |-> tbl[best.row].NPI, matchTier |-> best.tier,
      matchScore |-> best.score, entityType |-> tbl[best.row].entityType ]

\* a tally that counts an address match as unmatched
tally_without_address(st, best) ==
    IF best.row # 0 /\ best.tier # "address"
    THEN [st EXCEPT ![best.tier] = @ + 1] ELSE [st EXCEPT !.none = @ + 1]

\* the end of an iteration: stats[best_tier] += 1 or stats["none"] += 1
tally(st, best) ==
    IF best.row # 0 THEN [st EXCEPT ![best.tier] = @ + 1] ELSE [st EXCEPT !.none = @ + 1]

\* the end of an iteration: matches.append(...) when there is a best match
emit(ms, tbl, clinic_id, best) ==
    IF best.row # 0 THEN Append(ms, MatchResult(tbl, clinic_id, best)) ELSE ms

(***************************************************************************)
(* download-and-filter.py: filter_nppes                                    *)
(***************************************************************************)
PAIN_TAXONOMY_CODES ==
    { "261QP3300X", "208100000X", "2081P2900X", "2081P0010X", "207L00000X",
      "204D00000X", "207RE0101X", "208VP0014X", "2084P0800X", "2083P0011X",
      "364SP0808X", "1223P0106X", "225X00000X", "225100000X", "2251P0200X",
      "332B00000X" }

MEDICAL_ORG_CODES ==
    { "261QP3300X", "261QM1300X", "261QM1200X", "261QR0200X", "261QR0400X",
      "261QP2300X", "261QX0203X" }

all_taxonomy_codes == PAIN_TAXONOMY_CODES \cup MEDICAL_ORG_CODES

\* chunk[zip_col].fillna("").str[:5]; an absent field is the empty string
normalize_zip(row) == [row EXCEPT !.zip = first5(row.zip)]

\* tax_match: one of the three taxonomy columns is a code of interest
tax_match(row) ==
    \/ row.tax1 \in all_taxonomy_codes
    \/ row.tax2 \in all_taxonomy_codes
    \/ row.tax3 \in all_taxonomy_codes

\* a zip criterion that forgets the entity type
zip_match_any_entity(row, zips) ==
    zips # {} /\ row.zip \in zips

\* zip_match, on a row whose zip is already cut to 5 characters
zip_match(row, zips) ==
    zips # {} /\ row.entity = "2" /\ row.zip \in zips

\* mask = tax_match | zip_match
mask(row, zips) == tax_match(row) \/ zip_match(row, zips)

\* filtered = chunk[mask], on the chunk with its zip column normalised
RECURSIVE filter_chunk(_, _)
filter_chunk(chunk, zips) ==
    IF chunk = <<>> THEN <<>>
    ELSE LET row == normalize_zip(Head(chunk))
         IN  (IF mask(row, zips) THEN <<row>> ELSE <<>>) \o filter_chunk(Tail(chunk), zips)

\* pd.concat(chunks, ignore_index=True)
RECURSIVE concat(_)
concat(cs) == IF cs = <<>> THEN <<>> ELSE Head(cs) \o concat(Tail(cs))

(***************************************************************************)
(* crawl.py: main, process_clinic and the checkpoint file                  *)
(***************************************************************************)
Min(a, b) == IF a < b THEN a ELSE b

\* all_clinics[offset:], then [:limit] when limit > 0
clinics_to_process(all, offset, limit) ==
    LET from_offset == SubSeq(all, offset + 1, Len(all))
    IN  IF limit > 0 THEN SubSeq(from_offset, 1, Min(limit, Len(from_offset))) ELSE from_offset

\* load_existing_results: the entries of the file keyed by clinicId
load_existing_results(file) == file.content

\* a resume that skips nothing
select_all(to_process, existing) == to_process

\* [c for c in clinics_to_process if c["id"] not in existing_results]
RECURSIVE select_remaining(_, _)
select_remaining(to_process, existing) ==
    IF to_process = <<>> THEN <<>>
    ELSE (IF Head(to_process) \in DOMAIN existing THEN <<>> ELSE <<Head(to_process)>>)
         \o select_remaining(Tail(to_process), existing)

\* a save that writes nothing
save_nothing(file, results) == file

\* save_results: the file is rewritten with all the values of the result table
save_results(file, results) == [content |-> results, writes |-> file.writes + 1]

\* remaining[batch_start : batch_start + batch_size]
batch_of(rem, start, size) == SubSeq(rem, start + 1, Min(start + size, Len(rem)))

Range(seq) == {seq[i] : i \in 1..Len(seq)}

\* the dict a return statement of process_clinic builds
result_entry(id, outcome) ==
    [ clinicId   |-> id,
      extraction |-> IF outcome = "record" THEN "record" ELSE "null",
      error      |-> IF outcome = "record" THEN "null" ELSE outcome ]

\* what extract_with_anthropic / extract_with_openai return on a reply of the
\* model: the value json.loads gives, or None after a JSONDecodeError or an
\* API error (both are caught); "empty" is a JSON value Python holds false,
\* such as {} or null
extract_with(reply) ==
    CASE reply = "record" -> "record"
      [] reply = "empty" -> "empty"
      [] reply \in {"json_error", "api_error"} -> "None"

\* a test "extraction is None" in place of "not extraction"
outcome_unless_none(extraction) ==
    IF extraction = "None" THEN "extraction_failed" ELSE "record"

\* process_clinic after the model call: "if not extraction" gives the
\* extraction_failed result, anything else the result holding the extraction
outcome_of(extraction) ==
    IF extraction \in {"None", "empty"} THEN "extraction_failed" ELSE "record"

\* a with-block that gives the permit back only when the body returns
release_on_return(sem, exit) == IF exit = "raise" THEN sem ELSE sem + 1

\* leaving "async with semaphore", by a return or by an exception, releases it
release(sem, exit) == sem + 1

\* a semaphore that lets every task in
acquires_always(sem) == TRUE

\* "async with semaphore" is entered only while the value is positive
acquires(sem) == sem > 0

\* a gather that returns at the first exception of a task
gather_returns_on_exception(ts, batch) ==
    \/ \A id \in batch : ts[id].pc = "done"
    \/ \E id \in batch : ts[id].outcome = "exception"

\* asyncio.gather(*tasks, return_exceptions=True) returns when every task of the
\* batch has returned or raised
gather_returns(ts, batch) == \A id \in batch : ts[id].pc = "done"

\* the tasks of the batch whose result reaches the result table: an exception
\* is printed and skipped
recorded(ts, batch) ==
    {id \in batch : ts[id].pc = "done" /\ ts[id].outcome # "exception"}

\* a result table that keeps only the results of the batch
record_batch_only(existing, ts, batch) ==
    [id \in recorded(ts, batch) |-> result_entry(id, ts[id].outcome)]

\* the loop "for result in results" over the results of the batch
record_results(existing, ts, batch) ==
    [id \in DOMAIN existing \cup recorded(ts, batch) |->
        IF id \in recorded(ts, batch) THEN result_entry(id, ts[id].outcome) ELSE existing[id]]

(***************************************************************************)
(* Inputs of the runs                                                      *)
(***************************************************************************)
RECURSIVE Concats(_, _)
Concats(tokens, n) ==
    IF n = 0 THEN {""}
    ELSE LET shorter == Concats(tokens, n - 1)
         IN  shorter \cup {s \o t : s \in shorter, t \in tokens}

SeqsUpTo(S, n) == UNION {[1..k -> S] : k \in 0..n}

NameTokens == {"X", " j", " llc", ", Inc", " clinic", " pain", ".", " "}

AddressTokens == {"1", " Main", " street", " northwest", " ste", ".", " 5", "\t"}

PhoneTokens == {"555", "1234567", "(555) ", "123-4567", "1", "+"}

NameExamples == {"Downtown Pain Clinic, LLC", "Downtown Pain Management"}

AddressExamples ==
    {"12 Oak Avenue", "12 Oak Northwest", "12 Oak Northeast",
     "12 Oak Southwest", "12 Oak Southeast"}

NormalizeInputs(f) ==
    CASE f = "name"    -> Concats(NameTokens, MaxTokens) \cup NameExamples
      [] f = "address" -> Concats(AddressTokens, MaxTokens) \cup AddressExamples
      [] f = "phone"   -> Concats(PhoneTokens, MaxTokens)

\* raw registry rows (columns of nppes-filtered.csv), in file order
RegistryPool ==
    << [entity |-> "2", org |-> "Acme Pain Clinic, LLC", first |-> "", last |-> "",
        addr |-> "1 Main Street", zip |-> "100011234", phone |-> "5551234567"],
       [entity |-> "1", org |-> "", first |-> "Jo", last |-> "Doe",
        addr |-> "Suite 5", zip |-> "10001", phone |-> "1-555-123-4567"],
       [entity |-> "2", org |-> ".", first |-> "", last |-> "",
        addr |-> "2 Oak Ave", zip |-> "10001", phone |-> "555-1234"],
       [entity |-> "2", org |-> "Elm Health", first |-> "", last |-> "",
        addr |-> "9 Elm Rd", zip |-> "20002", phone |-> ""],
       [entity |-> "2", org |-> "Elm Rehab", first |-> "", last |-> "",
        addr |-> "", zip |-> "2000", phone |-> "5550000000"] >>

\* the sequences that keep some entries of seq[from..upto], in order
RECURSIVE SubSequences(_, _, _)
SubSequences(seq, from, upto) ==
    IF from > upto THEN {<<>>}
    ELSE LET rest == SubSequences(seq, from + 1, upto)
         IN  rest \cup {<<seq[from]>> \o t : t \in rest}

\* the registry files a run may load: selections of the first MaxRows pool rows
RegistryFiles ==
    SubSequences(RegistryPool, 1, IF MaxRows < Len(RegistryPool) THEN MaxRows ELSE Len(RegistryPool))

\* clinic records (entries of clinics-for-matching.json, without the id)
ClinicInputs ==
    { [phones |-> <<"5551234567">>, postalCode |-> "10001",
       title |-> "Acme Pain", streetAddress |-> "1 Main St"],
      [phones |-> <<"(555) 123-4567">>, postalCode |-> "10001-1234",
       title |-> "Acme", streetAddress |-> "1 Main St"],
      [phones |-> <<>>, postalCode |-> "10001",
       title |-> "Oak", streetAddress |-> "2 Oak Avenue"],
      [phones |-> <<"5550000000", "5551234567">>, postalCode |-> "",
       title |-> "", streetAddress |-> ""],
      [phones |-> <<>>, postalCode |-> "20002",
       title |-> "Elm Clinic", streetAddress |-> ""] }

\* values fuzz.token_sort_ratio may return for a name pair / an address pair
NameScores == {69, 70, 71}

AddressScores == {74, 75}

\* rows of the registry file a filter run may read (NPI is set by position)
CsvRows ==
    { [entity |-> "1", zip |-> "10001",     tax1 |-> "208100000X", tax2 |-> "",           tax3 |-> ""],
      [entity |-> "1", zip |-> "100011234", tax1 |-> "999999999X", tax2 |-> "",           tax3 |-> ""],
      [entity |-> "2", zip |-> "100011234", tax1 |-> "999999999X", tax2 |-> "",           tax3 |-> ""],
      [entity |-> "2", zip |-> "30003",     tax1 |-> "",           tax2 |-> "",           tax3 |-> "261QM1300X"],
      [entity |-> "2", zip |-> "30003",     tax1 |-> "999999999X", tax2 |-> "",           tax3 |-> ""],
      [entity |-> "",  zip |-> "",          tax1 |-> "",           tax2 |-> "207L00000X", tax3 |-> ""],
      [entity |-> "2", zip |-> "",          tax1 |-> "",           tax2 |-> "",           tax3 |-> ""] }

\* the postal-code sets load_clinic_zip_codes may hand over
ZipSets == { {}, {"10001"}, {"10001", "20002"} }

WithNpi(rows) ==
    [i \in 1..Len(rows) |->
        [NPI |-> i, entity |-> rows[i].entity, zip |-> rows[i].zip,
         tax1 |-> rows[i].tax1, tax2 |-> rows[i].tax2, tax3 |-> rows[i].tax3]]

WithIds(inputs) ==
    [i \in 1..Len(inputs) |->
        [id |-> i, phones |-> inputs[i].phones, postalCode |-> inputs[i].postalCode,
         title |-> inputs[i].title, streetAddress |-> inputs[i].streetAddress]]

(***************************************************************************)
(* Each run executes one script; the state of the others stays idle        *)
(***************************************************************************)
NoScan == [clinic |-> 0]

IdleNormalize == nfun = "none" /\ nraw = "" /\ nout = <<>>

IdleMatcher ==
    /\ nppes = <<>> /\ clinics = <<>> /\ mpos = 0 /\ matches = <<>>
    /\ stats = [phone |-> 0, name |-> 0, address |-> 0, none |-> 0]
    /\ scan = NoScan
    /\ mpc = "idle" /\ summary = <<>>

\* the entry an earlier run left in the checkpoint file for a clinic
StoredEntry(id) ==
    [ clinicId   |-> id,
      extraction |-> IF id % 3 = 1 THEN "stored" ELSE "null",
      error      |-> IF id % 3 = 1 THEN "null"
                     ELSE IF id % 3 = 2 THEN "no_content" ELSE "extraction_failed" ]

\* the checkpoint files a run may find: any set of input clinics already stored
CheckpointFiles ==
    { [content |-> [id \in ids |-> StoredEntry(id)], writes |-> 0] : ids \in SUBSET (1..MaxInput) }

Offsets == {0, 1}

Limits == {0, 2}

BatchSizes == {1, 2, 3}

ConcurrencyBounds == {0, 1, 2}

NoFile == [content |-> <<>>, writes |-> 0]

IdleSite ==
    /\ website = "" /\ base_url = "" /\ site_root = "" /\ wpc = "idle" /\ path_idx = 0
    /\ fetched = <<>> /\ pages = <<>> /\ collected_content = <<>>
    /\ found_insurance_page = FALSE /\ crawl_result = "unset"

IdleMain ==
    /\ args = [offset |-> 0, limit |-> 0, batch_size |-> 0, max_concurrent |-> 0]
    /\ all_clinics = <<>> /\ file_at_start = NoFile /\ results_file = NoFile
    /\ existing_results = <<>> /\ remaining = <<>> /\ cpc = "idle"
    /\ batch_start = 0 /\ tasks = <<>> /\ semaphore = 0

IdleCrawler == IdleMain /\ IdleSite

IdleFilter ==
    /\ csv = <<>> /\ clinic_zips = {} /\ fpos = 0 /\ chunks = <<>>
    /\ counters = [total_rows |-> 0, kept_rows |-> 0]
    /\ fresult = "unset"

(***************************************************************************)
(* Normaliser runs: a raw string is drawn, the normaliser is applied to    *)
(* it, then to its own result.                                             *)
(***************************************************************************)
NormalizeArg == IF nout = <<>> THEN nraw ELSE nout[Len(nout)]

InitNormalize ==
    /\ script = "normalize"
    /\ nfun \in {"name", "address", "phone"}
    /\ nraw \in NormalizeInputs(nfun)
    /\ nout = <<>>
    /\ IdleMatcher /\ IdleFilter /\ IdleCrawler

ApplyNormalizeName ==
    /\ script = "normalize" /\ nfun = "name" /\ Len(nout) < MaxApply
    /\ nout' = Append(nout, normalize_name(NormalizeArg))
    /\ UNCHANGED <<script, nfun, nraw, varsMatcher, varsFilter, varsCrawler>>

ApplyNormalizeAddress ==
    /\ script = "normalize" /\ nfun = "address" /\ Len(nout) < MaxApply
    /\ nout' = Append(nout, normalize_address(NormalizeArg))
    /\ UNCHANGED <<script, nfun, nraw, varsMatcher, varsFilter, varsCrawler>>

ApplyNormalizePhone ==
    /\ script = "normalize" /\ nfun = "phone" /\ Len(nout) < MaxApply
    /\ nout' = Append(nout, normalize_phone(NormalizeArg))
    /\ UNCHANGED <<script, nfun, nraw, varsMatcher, varsFilter, varsCrawler>>

NextNormalize ==
    \/ ApplyNormalizeName
    \/ ApplyNormalizeAddress
    \/ ApplyNormalizePhone

SpecNormalize == InitNormalize /\ [][NextNormalize]_vars

(***************************************************************************)
(* Matcher runs: main() of match-clinics.py after both inputs are loaded   *)
(***************************************************************************)
InitMatcher ==
    /\ script = "match"
    /\ \E rawrows \in RegistryFiles : nppes = load_nppes(rawrows)
    /\ \E inputs \in SeqsUpTo(ClinicInputs, MaxClinics) : clinics = WithIds(inputs)
    /\ mpos = 0
    /\ matches = <<>>
    /\ stats = [phone |-> 0, name |-> 0, address |-> 0, none |-> 0]
    /\ scan = NoScan
    /\ mpc = "matching" /\ summary = <<>>
    /\ IdleNormalize /\ IdleFilter /\ IdleCrawler

\* the rows of the clinic's postal-code bucket whose normalised column col is
\* not empty: the candidates a tier computes a similarity score for
scored_rows(tbl, clinic_zip, col) ==
    {r \in 1..Len(tbl) : Len(clinic_zip) = 5 /\ tbl[r].zip5 = clinic_zip /\ tbl[r][col] # ""}

\* the rows the name tier of the iteration calls fuzz.token_sort_ratio for:
\* none when the tier does not run
name_scored(tbl, phone_index, c) ==
    IF name_tier_runs(phone_tier(c.clinic_phones, phone_index, 1), c.clinic_zip, c.clinic_name)
    THEN scored_rows(tbl, c.clinic_zip, "name_normalized")
    ELSE {}

\* the rows the address tier of the iteration calls fuzz.token_sort_ratio for,
\* given the scores the name tier got
address_scored(tbl, phone_index, zip_index, c, name_scores) ==
    LET after_phone == phone_tier(c.clinic_phones, phone_index, 1)
        after_name  == IF name_tier_runs(after_phone, c.clinic_zip, c.clinic_name)
                       THEN scan_candidates(tbl, zip_candidates(zip_index, c.clinic_zip), 1,
                                            "name_normalized", name_scores,
                                            NAME_MATCH_THRESHOLD, "name", after_phone)
                       ELSE after_phone
    IN  IF address_tier_runs(after_name, c.clinic_zip, c.clinic_addr)
        THEN scored_rows(tbl, c.clinic_zip, "address_normalized")
        ELSE {}

\* the highest of the scores, 0 when there is none
max_score(scores) ==
    IF DOMAIN scores = {} THEN 0
    ELSE CHOOSE v \in {scores[r] : r \in DOMAIN scores} : \A r \in DOMAIN scores : scores[r] <= v

\* one iteration of "for clinic in clinics", on the indexes match_clinics built
\* from the registry before the loop; scan keeps what the iteration did, the
\* similarity scores the library gave, and the best of them per tier
MatchClinic ==
    /\ script = "match" /\ mpos < Len(clinics)
    /\ \E c \in {clinic_locals(clinics[mpos + 1])},
          phone_index \in {build_phone_index(nppes)},
          zip_index \in {build_zip_index(nppes)} :
         \E name_scores \in [name_scored(nppes, phone_index, c) -> NameScores] :
          \E addr_scores \in [address_scored(nppes, phone_index, zip_index, c, name_scores)
                                  -> AddressScores] :
           \E m \in {match_one(nppes, phone_index, zip_index, c, name_scores, addr_scores)} :
             /\ scan' = [name_scores |-> name_scores, addr_scores |-> addr_scores] @@
                         [m EXCEPT !.name_max = max_score(name_scores),
                                   !.addr_max = max_score(addr_scores)]
             /\ stats' = tally(stats, m.best)
             /\ matches' = emit(matches, nppes, c.clinic_id, m.best)
    /\ mpos' = mpos + 1
    /\ UNCHANGED <<script, nppes, clinics, mpc, summary, varsNormalize, varsFilter, varsCrawler>>

\* the lines main prints after the loop, as the values they show
summary_lines(total, matched, st) ==
    [ total |-> total, matched |-> matched, percent |-> (matched * 100) \div total,
      phone |-> st.phone, name |-> st.name, address |-> st.address, none |-> st.none ]

\* main after match_clinics returned: the matches are saved, then the summary
\* is printed; the percentage divides by the number of clinics, and Python
\* raises ZeroDivisionError on a zero divisor before the tallies are printed
ReportSummary ==
    /\ script = "match" /\ mpc = "matching" /\ mpos = Len(clinics)
    /\ IF Len(clinics) = 0
       THEN mpc' = "ZeroDivisionError" /\ summary' = <<>>
       ELSE mpc' = "reported" /\ summary' = <<summary_lines(Len(clinics), Len(matches), stats)>>
    /\ UNCHANGED <<script, nppes, clinics, mpos, matches, stats, scan,
                   varsNormalize, varsFilter, varsCrawler>>

NextMatcher == MatchClinic \/ ReportSummary

SpecMatcher == InitMatcher /\ [][NextMatcher]_vars

\* the runs that call normalize_phone: on a phone alone, and on the phones of
\* the registry rows a matcher run loads and indexes
SpecPhones == (InitNormalize \/ InitMatcher) /\ [][NextNormalize \/ NextMatcher]_vars

(***************************************************************************)
(* Filter runs: filter_nppes(csv_path, clinic_zips)                        *)
(***************************************************************************)
InitFilter ==
    /\ script = "filter"
    /\ \E rows \in SeqsUpTo(CsvRows, MaxCsvRows) : csv = WithNpi(rows)
    /\ clinic_zips \in ZipSets
    /\ fpos = 0
    /\ chunks = <<>>
    /\ counters = [total_rows |-> 0, kept_rows |-> 0]
    /\ fresult = "unset"
    /\ IdleNormalize /\ IdleMatcher /\ IdleCrawler

\* one iteration of "for i, chunk in enumerate(chunk_iter)"
FilterChunk ==
    /\ script = "filter" /\ fresult = "unset" /\ fpos < Len(csv)
    /\ \E last \in {IF fpos + ChunkRows < Len(csv) THEN fpos + ChunkRows ELSE Len(csv)} :
         \E filtered \in {filter_chunk(SubSeq(csv, fpos + 1, last), clinic_zips)} :
            /\ fpos' = last
            /\ chunks' = IF Len(filtered) > 0 THEN Append(chunks, filtered) ELSE chunks
            /\ counters' = [total_rows |-> counters.total_rows + (last - fpos),
                            kept_rows  |-> counters.kept_rows + Len(filtered)]
    /\ UNCHANGED <<script, csv, clinic_zips, fresult, varsNormalize, varsMatcher, varsCrawler>>

\* the end of filter_nppes: an empty frame, or the concatenation of the chunks
FilterReturn ==
    /\ script = "filter" /\ fresult = "unset" /\ fpos = Len(csv)
    /\ fresult' = concat(chunks)
    /\ UNCHANGED <<script, csv, clinic_zips, fpos, chunks, counters, varsNormalize, varsMatcher, varsCrawler>>

NextFilter ==
    \/ FilterChunk
    \/ FilterReturn

SpecFilter == InitFilter /\ [][NextFilter]_vars

(***************************************************************************)
(* Crawler runs: main() of crawl.py with its process_clinic tasks          *)
(***************************************************************************)
varsOthers == <<script, varsNormalize, varsMatcher, varsFilter, varsSite>>

InitCrawler ==
    /\ script = "crawl"
    /\ args \in [offset : Offsets, limit : Limits, batch_size : BatchSizes,
                 max_concurrent : ConcurrencyBounds]
    /\ all_clinics = [i \in 1..MaxInput |-> i]
    /\ file_at_start \in CheckpointFiles
    /\ results_file = file_at_start
    /\ existing_results = <<>>
    /\ remaining = <<>>
    /\ cpc = "start"
    /\ batch_start = 0
    /\ tasks = <<>>
    /\ semaphore = 0
    /\ IdleNormalize /\ IdleMatcher /\ IdleFilter /\ IdleSite

\* main up to the creation of the semaphore: window, resume, early return
SelectRemaining ==
    /\ script = "crawl" /\ cpc = "start"
    /\ existing_results' = load_existing_results(results_file)
    /\ remaining' = select_remaining(
                        clinics_to_process(all_clinics, args.offset, args.limit),
                        load_existing_results(results_file))
    /\ cpc' = IF remaining' = <<>> THEN "done" ELSE "batch"
    /\ semaphore' = IF remaining' = <<>> THEN semaphore ELSE args.max_concurrent
    /\ UNCHANGED <<args, all_clinics, file_at_start, results_file, batch_start, tasks, varsOthers>>

\* the head of a batch-loop iteration: the tasks of the batch are created and
\* gather schedules them; each one first waits for the semaphore
LaunchBatch ==
    /\ script = "crawl" /\ cpc = "batch"
    /\ tasks' = [id \in DOMAIN tasks \cup Range(batch_of(remaining, batch_start, args.batch_size)) |->
                    IF id \in DOMAIN tasks THEN tasks[id]
                    ELSE [pc |-> "waiting", outcome |-> "pending",
                          content |-> "pending", reply |-> "not_called"]]
    /\ cpc' = "gather"
    /\ UNCHANGED <<args, all_clinics, file_at_start, results_file, existing_results,
                   remaining, batch_start, semaphore, varsOthers>>

\* process_clinic enters "async with semaphore" and starts crawling
Acquire(id) ==
    /\ script = "crawl" /\ id \in DOMAIN tasks /\ tasks[id].pc = "waiting"
    /\ acquires(semaphore)
    /\ semaphore' = semaphore - 1
    /\ tasks' = [tasks EXCEPT ![id].pc = "crawling"]
    /\ UNCHANGED <<args, all_clinics, file_at_start, results_file, existing_results,
                   remaining, cpc, batch_start, varsOthers>>

\* crawl_clinic_website returns content, returns nothing, or an error is raised
\* in the task; leaving the with-block releases the semaphore
CrawlReturns(id) ==
    /\ script = "crawl" /\ id \in DOMAIN tasks /\ tasks[id].pc = "crawling"
    /\ \E got \in {"content", "nothing", "raised"} :
         CASE got = "content" ->
                /\ tasks' = [tasks EXCEPT ![id].pc = "extracting", ![id].content = got]
                /\ semaphore' = semaphore
           [] got = "nothing" ->
                /\ tasks' = [tasks EXCEPT ![id].pc = "done", ![id].content = got,
                                          ![id].outcome = "no_content"]
                /\ semaphore' = release(semaphore, "return")
           [] got = "raised" ->
                /\ tasks' = [tasks EXCEPT ![id].pc = "done", ![id].content = got,
                                          ![id].outcome = "exception"]
                /\ semaphore' = release(semaphore, "raise")
    /\ UNCHANGED <<args, all_clinics, file_at_start, results_file, existing_results,
                   remaining, cpc, batch_start, varsOthers>>

\* the model call: the reply parses to a record or to an empty value, fails to
\* parse, the API reports an error, or another error is raised in the task;
\* the semaphore is released
ExtractReturns(id) ==
    /\ script = "crawl" /\ id \in DOMAIN tasks /\ tasks[id].pc = "extracting"
    /\ \E reply \in {"record", "empty", "json_error", "api_error", "raised"} :
         IF reply = "raised"
         THEN /\ tasks' = [tasks EXCEPT ![id].pc = "done", ![id].reply = reply,
                                        ![id].outcome = "exception"]
              /\ semaphore' = release(semaphore, "raise")
         ELSE /\ tasks' = [tasks EXCEPT ![id].pc = "done", ![id].reply = reply,
                                        ![id].outcome = outcome_of(extract_with(reply))]
              /\ semaphore' = release(semaphore, "return")
    /\ UNCHANGED <<args, all_clinics, file_at_start, results_file, existing_results,
                   remaining, cpc, batch_start, varsOthers>>

\* gather returns: the results are put in the table, the checkpoint is saved,
\* and the batch loop goes on or ends
FinishBatch ==
    /\ script = "crawl" /\ cpc = "gather"
    /\ gather_returns(tasks, Range(batch_of(remaining, batch_start, args.batch_size)))
    /\ existing_results' =
          record_results(existing_results, tasks,
                         Range(batch_of(remaining, batch_start, args.batch_size)))
    /\ results_file' = save_results(results_file, existing_results')
    /\ batch_start' = batch_start + args.batch_size
    /\ cpc' = IF batch_start' < Len(remaining) THEN "batch" ELSE "done"
    /\ UNCHANGED <<args, all_clinics, file_at_start, remaining, tasks, semaphore, varsOthers>>

NextCrawler ==
    \/ SelectRemaining
    \/ LaunchBatch
    \/ \E id \in 1..MaxInput : Acquire(id)
    \/ \E id \in 1..MaxInput : CrawlReturns(id)
    \/ \E id \in 1..MaxInput : ExtractReturns(id)
    \/ FinishBatch

SpecCrawler == InitCrawler /\ [][NextCrawler]_vars

\* the event loop runs every step that stays ready: main goes on when it can,
\* a waiting task gets the semaphore once it stays free, and every fetch and
\* every model call returns or raises
FairCrawler ==
    /\ WF_vars(SelectRemaining) /\ WF_vars(LaunchBatch) /\ WF_vars(FinishBatch)
    /\ \A id \in 1..MaxInput :
          WF_vars(Acquire(id)) /\ WF_vars(CrawlReturns(id)) /\ WF_vars(ExtractReturns(id))

SpecCrawlerFair == InitCrawler /\ [][NextCrawler]_vars /\ FairCrawler

(***************************************************************************)
(* Site crawls: one call of crawl_clinic_website                           *)
(***************************************************************************)
INSURANCE_PAGE_PATHS == <<"/insurance", "/billing", "/patient-information", "/payment">>

\* the position of the first occurrence of p in s at or after k, 0 if none
RECURSIVE find(_, _, _)
find(s, p, k) ==
    IF k + Len(p) - 1 > Len(s) THEN 0
    ELSE IF startswith_at(s, k, p) THEN k ELSE find(s, p, k + 1)

\* the position after the host part that starts at k: the first of / ? #
RECURSIVE netloc_end(_, _)
netloc_end(s, k) ==
    IF k > Len(s) \/ Char(s, k) \in {"/", "?", "#"} THEN k ELSE netloc_end(s, k + 1)

\* get_site_root: urlparse splits scheme and host at "://"; without it both are empty
get_site_root(url) ==
    LET i == find(url, "://", 1)
    IN  IF i = 0 THEN "://"
        ELSE SubSeq(url, 1, i - 1) \o "://" \o SubSeq(url, i + 3, netloc_end(url, i + 3) - 1)

\* s.rstrip("/")
RECURSIVE rstrip_slash(_)
rstrip_slash(s) ==
    IF s # "" /\ Char(s, Len(s)) = "/" THEN rstrip_slash(SubSeq(s, 1, Len(s) - 1)) ELSE s

\* the url normalisation at the head of crawl_clinic_website
normalize_url(url) ==
    rstrip_slash(IF startswith_at(url, 1, "http") THEN url ELSE "https://" \o url)

\* what a fetch can give: a useful page holding a keyword, a useful page
\* without one, a page that is no use (failed, empty, short or a 404 page),
\* or an exception raised by crawler.arun
FetchOutcomes == {"keywords", "useful", "useless", "raised"}

\* is_useful_content on the page a successful fetch gave
is_useful_content(page) == page \in {"keywords", "useful"}

\* a fallback that only looks at the flag
fallback_unless_found(found, root, base) == ~found

\* if not found_insurance_page and site_root.rstrip("/") != base_url.rstrip("/")
fallback_runs(found, root, base) ==
    ~found /\ rstrip_slash(root) # rstrip_slash(base)

Websites ==
    {"example.com", "example.com/", "https://example.com", "http://example.com//",
     "https://example.com/dr/smith/", "example.com/dr?id=1", "httpbin.org"}

InitSite ==
    /\ script = "site"
    /\ website \in Websites
    /\ base_url = normalize_url(website)
    /\ site_root = get_site_root(normalize_url(website))
    /\ wpc = "main" /\ path_idx = 0
    /\ fetched = <<>> /\ pages = <<>> /\ collected_content = <<>>
    /\ found_insurance_page = FALSE /\ crawl_result = "unset"
    /\ IdleNormalize /\ IdleMatcher /\ IdleFilter /\ IdleMain

varsNotSite ==
    <<script, varsNormalize, varsMatcher, varsFilter, args, all_clinics, file_at_start,
      results_file, existing_results, remaining, cpc, batch_start, tasks, semaphore>>

\* the fetch of the given url; an exception is printed and the function goes on
FetchMain ==
    /\ script = "site" /\ wpc = "main"
    /\ fetched' = Append(fetched, base_url)
    /\ \E page \in FetchOutcomes :
         /\ pages' = Append(pages, page)
         /\ collected_content' = IF page # "raised" /\ is_useful_content(page)
                                  THEN Append(collected_content, "MAIN PAGE")
                                  ELSE collected_content
    /\ wpc' = "paths" /\ path_idx' = 1
    /\ UNCHANGED <<website, base_url, site_root, found_insurance_page, crawl_result, varsNotSite>>

\* one iteration of "for path in INSURANCE_PAGE_PATHS": the page is fetched
\* from the site root; a useful page with a keyword is collected and ends the
\* loop, anything else (an exception included) goes on to the next path
FetchPath ==
    /\ script = "site" /\ wpc = "paths"
    /\ fetched' = Append(fetched, site_root \o INSURANCE_PAGE_PATHS[path_idx])
    /\ \E page \in FetchOutcomes :
         /\ pages' = Append(pages, page)
         /\ IF page = "keywords"
            THEN /\ collected_content' =
                       Append(collected_content, "PAGE: " \o INSURANCE_PAGE_PATHS[path_idx])
                 /\ found_insurance_page' = TRUE
                 /\ wpc' = "fallback" /\ path_idx' = path_idx
            ELSE /\ UNCHANGED <<collected_content, found_insurance_page>>
                 /\ path_idx' = path_idx + 1
                 /\ wpc' = IF path_idx = Len(INSURANCE_PAGE_PATHS) THEN "fallback" ELSE "paths"
    /\ UNCHANGED <<website, base_url, site_root, crawl_result, varsNotSite>>

\* the end of the function: the site root is fetched if the fallback
\* condition holds, then the collected content, or None, is returned
FallbackAndReturn ==
    /\ script = "site" /\ wpc = "fallback"
    /\ IF fallback_runs(found_insurance_page, site_root, base_url)
       THEN /\ fetched' = Append(fetched, site_root)
            /\ \E page \in FetchOutcomes :
                 /\ pages' = Append(pages, page)
                 /\ collected_content' = IF page # "raised" /\ is_useful_content(page)
                                          THEN Append(collected_content, "SITE HOMEPAGE")
                                          ELSE collected_content
       ELSE UNCHANGED <<fetched, pages, collected_content>>
    /\ crawl_result' = IF collected_content' = <<>> THEN "None" ELSE "content"
    /\ wpc' = "returned"
    /\ UNCHANGED <<website, base_url, site_root, path_idx, found_insurance_page, varsNotSite>>

NextSite == FetchMain \/ FetchPath \/ FallbackAndReturn

SpecSite == InitSite /\ [][NextSite]_vars

(***************************************************************************)
(* Claims                                                                  *)
(***************************************************************************)
\* the clinic the latest iteration of the matcher loop handled
LastClinic == clinics[mpos]

\* the latest iteration appended a MatchResult of the given tier and score
LastEmitted(tier, score) ==
    /\ matches # <<>>
    /\ matches[Len(matches)].clinicId = LastClinic.id
    /\ matches[Len(matches)].matchTier = tier
    /\ matches[Len(matches)].matchScore = score

\* one of the clinic's phones, as the clinic record holds it, is a key of the phone index
RawPhoneHit(clinic) ==
    \E k \in 1..Len(clinic.phones) : clinic.phones[k] \in DOMAIN build_phone_index(nppes)

\* one of the clinic's phones, normalised to its last 10 digits, is a key of the phone index
NormalizedPhoneHit(clinic) ==
    \E k \in 1..Len(clinic.phones) :
        normalize_phone(clinic.phones[k]) \in DOMAIN build_phone_index(nppes)

\* C1: a clinic with a phone-index hit is emitted as a phone-tier match of
\* score 100; the name tier runs only when the phone tier found nothing, the
\* address tier only when phone and name tiers found nothing, and the result
\* of an earlier tier is the final result.
C1_TierPriority ==
    mpos > 0 =>
        /\ RawPhoneHit(LastClinic) => LastEmitted("phone", 100)
        /\ scan.ran_name => scan.after_phone.tier = "none"
        /\ scan.ran_address => (scan.after_phone.tier = "none" /\ scan.after_name.tier = "none")
        /\ scan.after_phone.tier # "none" => scan.best = scan.after_phone
        /\ scan.after_name.tier # "none" => scan.best = scan.after_name

\* a phone hit wins although the clinic has a name and its postal-code bucket
\* holds candidates the name tier would have scored
C1_Witness ==
    /\ mpos > 0
    /\ RawPhoneHit(LastClinic)
    /\ clinic_locals(LastClinic).clinic_name # ""
    /\ scored_rows(nppes, clinic_locals(LastClinic).clinic_zip, "name_normalized") # {}
    /\ LastEmitted("phone", 100)

\* C2: a clinic one of whose phones has, as its last 10 digits, a phone of the
\* registry is emitted as a phone-tier match of score 100, however the clinic
\* phone is formatted.
C2_FormattedPhoneMatches ==
    (mpos > 0 /\ NormalizedPhoneHit(LastClinic)) => LastEmitted("phone", 100)

\* the clinic ids of the input window: after offset, at most limit when limit > 0
WindowIds ==
    {all_clinics[i] : i \in {j \in 1..Len(all_clinics) :
        /\ j > args.offset
        /\ (args.limit > 0 => j <= args.offset + args.limit)}}

\* the clinic ids that had an entry in the checkpoint file when the run started
StoredIds == DOMAIN file_at_start.content

\* C3: process_clinic work is issued only for clinics of the input window
\* whose id was not in the checkpoint file at the start of the run.
C3_ResumeSkipsStored ==
    /\ DOMAIN tasks \subseteq WindowIds \ StoredIds
    /\ Range(remaining) \subseteq WindowIds \ StoredIds

\* checkpoint {1, 2}, input {1, 2, 3}: the finished run issued work for 3 only
C3_Witness ==
    /\ script = "crawl" /\ cpc = "done"
    /\ args.offset = 0 /\ args.limit = 0
    /\ StoredIds = {1, 2} /\ WindowIds = {1, 2, 3}
    /\ DOMAIN tasks = {3} /\ tasks[3].pc = "done"

\* position of a clinic id in remaining
PosInRemaining(id) == CHOOSE i \in 1..Len(remaining) : remaining[i] = id

\* number of the batch (from 0) a remaining clinic belongs to
BatchOf(id) == (PosInRemaining(id) - 1) \div args.batch_size

\* the clinics of the batches whose gather has returned
Gathered == {remaining[i] : i \in 1..Min(batch_start, Len(remaining))}

\* the entry of the clinic in the result table and in the checkpoint file is
\* the result its task returned
Checkpointed(id) ==
    /\ id \in DOMAIN existing_results
    /\ existing_results[id] = result_entry(id, tasks[id].outcome)
    /\ id \in DOMAIN results_file.content
    /\ results_file.content[id] = result_entry(id, tasks[id].outcome)

\* C4 as stated: the error a task raised ends up as an error-tagged result
\* for its clinic in the result table and in the checkpoint.
C4_RaisedErrorRecorded ==
    \A id \in Gathered :
        tasks[id].outcome = "exception" =>
            /\ id \in DOMAIN existing_results /\ existing_results[id].error # "null"
            /\ id \in DOMAIN results_file.content

\* C4 amended: the error a task raised is caught per task and skipped: the
\* clinic gets no entry in the result table nor in the checkpoint, every other
\* task of the batch runs to its end and has its result recorded and
\* checkpointed, and the batch loop goes on to the end of the clinic list.
C4_RaisedErrorSkipped ==
    /\ \A id \in Gathered :
          /\ tasks[id].pc = "done"
          /\ tasks[id].outcome = "exception" =>
                (id \notin DOMAIN existing_results /\ id \notin DOMAIN results_file.content)
          /\ tasks[id].outcome # "exception" => Checkpointed(id)
    /\ (script = "crawl" /\ cpc = "done") => Gathered = Range(remaining)

\* a finished run where a task raised and a sibling of the same batch returned
C4_Witness ==
    /\ script = "crawl" /\ cpc = "done"
    /\ \E a, b \in Gathered :
          /\ a # b /\ BatchOf(a) = BatchOf(b)
          /\ tasks[a].outcome = "exception"
          /\ tasks[b].outcome # "exception" /\ Checkpointed(b)

\* C5: a task exists only once every task of the earlier batches is done and
\* their results are in the checkpoint file, and the file has been written
\* exactly once per finished batch.
C5_BatchesInOrder ==
    script = "crawl" =>
        /\ \A id \in DOMAIN tasks : \A before \in Range(remaining) :
              BatchOf(before) < BatchOf(id) =>
                  /\ before \in DOMAIN tasks /\ tasks[before].pc = "done"
                  /\ tasks[before].outcome # "exception" => Checkpointed(before)
                  /\ results_file.writes >= BatchOf(id)
        /\ cpc \in {"batch", "gather", "done"} =>
              results_file.writes = Cardinality({BatchOf(id) : id \in Gathered})
        /\ cpc = "start" => results_file.writes = 0

\* a task of the second batch is running after the first batch was saved
C5_Witness ==
    /\ script = "crawl" /\ cpc = "gather" /\ results_file.writes = 1
    /\ \E id \in DOMAIN tasks :
          /\ BatchOf(id) = 1 /\ tasks[id].pc \in {"crawling", "extracting"}
    /\ \E before \in Gathered : Checkpointed(before)

\* the tasks inside the semaphore-guarded section of process_clinic
InFlight == {id \in DOMAIN tasks : tasks[id].pc \in {"crawling", "extracting"}}

\* C6: at most max_concurrent clinics are inside the semaphore-guarded
\* section of process_clinic at any moment, whatever the batch size.
C6_BoundedInFlight ==
    script = "crawl" => Cardinality(InFlight) <= args.max_concurrent

\* a batch larger than the bound: the bound is reached and a task waits
C6_Witness ==
    /\ script = "crawl" /\ args.batch_size > args.max_concurrent
    /\ args.max_concurrent >= 1
    /\ Cardinality(InFlight) = args.max_concurrent
    /\ \E id \in DOMAIN tasks : tasks[id].pc = "waiting"

\* C7: in the name tier a best candidate score of exactly 70 is accepted as a
\* name match; with a best score of 69 the name tier finds nothing and the
\* clinic goes on to the address tier.
C7_NameThreshold ==
    (mpos > 0 /\ scan.ran_name) =>
        /\ scan.name_max = 70 =>
              /\ scan.after_name.tier = "name" /\ scan.after_name.score = 70
              /\ LastEmitted("name", 70)
        /\ scan.name_max = 69 =>
              /\ scan.after_name.tier = "none"
              /\ scan.best.tier \in {"address", "none"}
              /\ scan.ran_address = (clinic_locals(LastClinic).clinic_addr # "")

\* a candidate scoring exactly 70 was taken as the name match
C7_Witness ==
    /\ mpos > 0 /\ scan.ran_name /\ scan.name_max = 70
    /\ LastEmitted("name", 70)

\* C8: every handled clinic gave exactly one outcome: the MatchResults and
\* the 'none' tally add up to the clinics handled, the three tier tallies add
\* up to the MatchResults, and no clinic id occurs in two MatchResults.
C8_OneOutcomePerClinic ==
    /\ Len(matches) + stats.none = mpos
    /\ stats.phone + stats.name + stats.address = Len(matches)
    /\ \A t \in {"phone", "name", "address"} :
          stats[t] = Cardinality({k \in 1..Len(matches) : matches[k].matchTier = t})
    /\ \A j, k \in 1..Len(matches) : matches[j].clinicId = matches[k].clinicId => j = k
    /\ \A k \in 1..Len(matches) : matches[k].clinicId \in {clinics[i].id : i \in 1..mpos}

\* a finished run over several clinics with matched and unmatched clinics
C8_Witness ==
    /\ script = "match" /\ mpos = Len(clinics) /\ mpos >= 2
    /\ matches # <<>> /\ stats.none > 0

\* the rows kept so far, in order
KeptRows == concat(chunks)

KeptNpi == {KeptRows[k].NPI : k \in 1..Len(KeptRows)}

HasCodeOfInterest(row) ==
    \E code \in {row.tax1, row.tax2, row.tax3} : code \in PAIN_TAXONOMY_CODES \cup MEDICAL_ORG_CODES

\* C9: a row read by filter_nppes is kept if and only if one of its three
\* taxonomy codes is in the union of the two code sets, or it is an
\* organization whose postal code cut to 5 characters is in the clinic
\* postal-code set; the returned frame holds exactly the kept rows.
C9_KeepPredicate ==
    /\ \A i \in 1..fpos :
          /\ i \in KeptNpi <=>
                \/ HasCodeOfInterest(csv[i])
                \/ (csv[i].entity = "2" /\ first5(csv[i].zip) \in clinic_zips)
          /\ HasCodeOfInterest(csv[i]) => i \in KeptNpi
          /\ (csv[i].entity # "2" /\ ~HasCodeOfInterest(csv[i])) => i \notin KeptNpi
          /\ clinic_zips = {} => (i \in KeptNpi <=> HasCodeOfInterest(csv[i]))
    /\ fresult # "unset" =>
          /\ fpos = Len(csv)
          /\ {fresult[k].NPI : k \in 1..Len(fresult)} = KeptNpi

\* a finished filter run that kept an organization by postal code alone and
\* dropped a non-organization of a clinic postal code
C9_Witness ==
    /\ script = "filter" /\ fresult # "unset"
    /\ \E i \in 1..Len(csv) :
          /\ csv[i].entity = "2" /\ ~HasCodeOfInterest(csv[i]) /\ i \in KeptNpi
    /\ \E i \in 1..Len(csv) :
          /\ csv[i].entity # "2" /\ first5(csv[i].zip) \in clinic_zips /\ i \notin KeptNpi

\* C10: normalize_name and normalize_address are idempotent: applying the
\* normaliser to its own result returns that result unchanged.
C10_NormalizeIdempotent ==
    (nfun \in {"name", "address"} /\ Len(nout) >= 2) => nout[2] = nout[1]

\* C11 (as stated): normalize_name strips one matching suffix, so that
\* "Downtown Pain Clinic, LLC" normalizes to "downtown pain" and
\* "Downtown Pain Management" to "downtown pain management".
C11_OneSuffixExamples ==
    (nfun = "name" /\ nout # <<>>) =>
        /\ nraw = "Downtown Pain Clinic, LLC" => nout[1] = "downtown pain"
        /\ nraw = "Downtown Pain Management" => nout[1] = "downtown pain management"

\* C11 (amended): normalize_name tries every suffix of the list once, in list
\* order, and strips each one that ends the name as left so far; both example
\* names normalize to "downtown", and a name made of suffixes only loses
\* several of them in one call.
C11_EverySuffixInOrder ==
    (nfun = "name" /\ nout # <<>>) =>
        /\ nraw \in NameExamples => nout[1] = "downtown"
        /\ nraw = "X clinic llc" => nout[1] = "x"
        /\ nraw = "X pain clinic" => nout[1] = "x"
        /\ nraw = "X llc clinic" => nout[1] = "x llc"

C11_Witness ==
    nfun = "name" /\ nraw = "Downtown Pain Clinic, LLC" /\ Len(nout) = 1

\* out is the last 10 of the digits of raw, or empty when raw has fewer than 10
LastTenDigits(raw, out) ==
    LET digits == sub_nondigit(raw)
    IN  IF Len(digits) >= 10
        THEN Len(out) = 10 /\ out = SubSeq(digits, Len(digits) - 9, Len(digits))
        ELSE out = ""

AllDigits(s) == \A i \in 1..Len(s) : IsDigit(Char(s, i))

\* C12: normalize_phone returns the last 10 digits of an input with at least
\* 10 digits and the empty string otherwise; a registry row whose phone is
\* unusable is in no bucket of the phone index, every key of the index has
\* exactly 10 digits, and every phone-tier match joins a registry phone and a
\* clinic phone of at least 10 digits each.
C12_PhoneNormalization ==
    /\ (nfun = "phone" /\ nout # <<>>) => LastTenDigits(nraw, nout[1])
    /\ script = "match" =>
         LET idx == build_phone_index(nppes)
         IN  /\ \A i \in 1..Len(nppes) :
                   /\ LastTenDigits(nppes[i].phone, nppes[i].phone_normalized)
                   /\ nppes[i].phone_normalized = "" =>
                          \A k \in DOMAIN idx : i \notin Range(idx[k])
             /\ \A k \in DOMAIN idx : Len(k) = 10 /\ AllDigits(k)
             /\ \A j \in 1..Len(matches) :
                   matches[j].matchTier = "phone" =>
                      /\ Len(sub_nondigit(nppes[matches[j].npi].phone)) >= 10
                      /\ \E p \in Range(clinics[matches[j].clinicId].phones) :
                            /\ Len(sub_nondigit(p)) >= 10
                            /\ p = nppes[matches[j].npi].phone_normalized

\* a phone-tier match was emitted from a registry that also holds a row whose
\* phone has digits but fewer than 10
C12_Witness ==
    /\ script = "match" /\ mpos > 0 /\ LastEmitted("phone", 100)
    /\ \E i \in 1..Len(nppes) :
          nppes[i].phone # "" /\ nppes[i].phone_normalized = ""

\* C13: once the loop over the clinics is over and main has gone on, the run
\* has reported the summary (the tallies per tier and of unmatched clinics)
\* and has not ended in an error, for every clinic list, the empty one included.
C13_SummaryAlwaysReported ==
    (script = "match" /\ mpc # "matching") =>
        /\ mpc = "reported"
        /\ Len(summary) = 1
        /\ summary[1].total = Len(clinics)
        /\ summary[1].phone + summary[1].name + summary[1].address + summary[1].none
              = Len(clinics)

\* the tasks of process_clinic that returned a result
Returned == {id \in DOMAIN tasks : tasks[id].pc = "done" /\ tasks[id].outcome # "exception"}

\* the result holds exactly one of extraction and error
OneOfExtractionAndError(e) == (e.extraction = "null") # (e.error = "null")

\* C14 (as stated): a returned result has exactly one of extraction and error;
\* error is no_content exactly when no content was gathered (no model call
\* then), extraction_failed exactly when content was gathered and the model
\* call failed with an API error or its reply failed to parse as JSON, and
\* otherwise the result holds the parsed record; returned results of finished
\* batches are in the checkpoint.
C14_ErrorTagsExact ==
    \A id \in Returned :
        LET e == result_entry(id, tasks[id].outcome)
        IN  /\ OneOfExtractionAndError(e)
            /\ e.error = "no_content" <=> tasks[id].content = "nothing"
            /\ tasks[id].content = "nothing" => tasks[id].reply = "not_called"
            /\ e.error = "extraction_failed" <=>
                  (tasks[id].content = "content" /\ tasks[id].reply \in {"api_error", "json_error"})
            /\ e.error \notin {"no_content", "extraction_failed"} =>
                  (e.error = "null" /\ e.extraction = "record")
            /\ id \in Gathered => Checkpointed(id)

\* C14 (amended): as above, but extraction_failed stands for every model call
\* that gave nothing usable: an API error, a reply that fails to parse as
\* JSON, or a reply that parses to an empty (false) JSON value.
C14_ErrorTagsWithEmptyReply ==
    \A id \in Returned :
        LET e == result_entry(id, tasks[id].outcome)
        IN  /\ OneOfExtractionAndError(e)
            /\ e.error = "no_content" <=> tasks[id].content = "nothing"
            /\ tasks[id].content = "nothing" => tasks[id].reply = "not_called"
            /\ e.error = "extraction_failed" <=>
                  (/\ tasks[id].content = "content"
                   /\ tasks[id].reply \in {"api_error", "json_error", "empty"})
            /\ e.error \notin {"no_content", "extraction_failed"} =>
                  (e.error = "null" /\ e.extraction = "record" /\ tasks[id].reply = "record")
            /\ id \in Gathered => Checkpointed(id)

\* one finished batch holds a result of each kind, the empty reply included
C14_Witness ==
    /\ script = "crawl" /\ cpc = "done"
    /\ \E a, b, c \in Returned \cap Gathered :
          /\ tasks[a].reply = "empty" /\ existing_results[a].error = "extraction_failed"
          /\ tasks[b].content = "nothing" /\ existing_results[b].error = "no_content"
          /\ tasks[c].reply = "record" /\ existing_results[c].extraction = "record"

\* the candidates of the latest clinic: the bucket of its postal code
LastCandidates ==
    zip_candidates(build_zip_index(nppes), clinic_locals(LastClinic).clinic_zip)

\* the running best after the first k candidates of a tier that starts with no match
RunningBest(cands, k, col, scores, threshold, tier) ==
    scan_candidates(nppes, SubSeq(cands, 1, k), 1, col, scores, threshold, tier, NoMatch)

\* the scan of one tier over cands: the running best never goes down and
\* changes only to a candidate of strictly greater score; result is the first
\* candidate of greatest score if that score reaches the threshold, else no match
TierScan(cands, col, scores, threshold, tier, result) ==
    LET scored == {k \in 1..Len(cands) : nppes[cands[k]][col] # ""}
        top    == max_score(scores)
        rb(k)  == RunningBest(cands, k, col, scores, threshold, tier)
    IN  /\ \A i, j \in 1..Len(cands) : i < j => cands[i] < cands[j]
        /\ {cands[k] : k \in scored} = DOMAIN scores
        /\ \A k \in 1..Len(cands) :
              /\ rb(k).score >= rb(k - 1).score
              /\ rb(k) # rb(k - 1) =>
                    (rb(k).score > rb(k - 1).score /\ rb(k).row = cands[k] /\ k \in scored)
        /\ result = rb(Len(cands))
        /\ IF scored # {} /\ top >= threshold
           THEN /\ result.tier = tier /\ result.score = top
                /\ scores[result.row] = top
                /\ \A k \in scored : scores[cands[k]] = top => result.row <= cands[k]
           ELSE result = NoMatch

\* C15: in the name tier and in the address tier the scan keeps a running
\* best that never decreases and is replaced only on a strictly greater
\* score; the tier gives the first candidate, in registry row order, of the
\* greatest score among the candidates with a non-empty normalised field,
\* kept only if that score is at least 70 (name) or 75 (address).
C15_FirstBestCandidate ==
    (script = "match" /\ mpos > 0) =>
        /\ scan.ran_name =>
              TierScan(LastCandidates, "name_normalized", scan.name_scores,
                       NAME_MATCH_THRESHOLD, "name", scan.after_name)
        /\ scan.ran_address =>
              TierScan(LastCandidates, "address_normalized", scan.addr_scores,
                       ADDRESS_MATCH_THRESHOLD, "address", scan.best)

\* two candidates tie at the greatest name score and the first one is taken,
\* and in an address tier the second candidate beats the first
C15_Witness ==
    /\ script = "match" /\ mpos > 0 /\ scan.ran_name
    /\ \E r1, r2 \in DOMAIN scan.name_scores :
          /\ r1 < r2 /\ scan.name_scores[r1] = 71 /\ scan.name_scores[r2] = 71
          /\ scan.after_name.row = r1 /\ LastEmitted("name", 71)

\* the number of sub-path fetches made: up to the first page with a keyword
PathFetches ==
    IF \E n \in 1..Len(INSURANCE_PAGE_PATHS) : Len(pages) > n /\ pages[n + 1] = "keywords"
    THEN CHOOSE n \in 1..Len(INSURANCE_PAGE_PATHS) :
            /\ Len(pages) > n /\ pages[n + 1] = "keywords"
            /\ \A m \in 1..(n - 1) : pages[m + 1] # "keywords"
    ELSE Len(INSURANCE_PAGE_PATHS)

\* C16: a returned call fetched the given url first, then the sub-paths
\* /insurance, /billing, /patient-information, /payment on the site root in
\* that order up to and including the first useful page with a keyword, then
\* the bare site root exactly when no sub-path succeeded and the site root is
\* not the crawled url; no outcome of a fetch, an exception included, cuts
\* this sequence short.
C16_FetchOrder ==
    (script = "site" /\ wpc = "returned") =>
        LET n         == PathFetches
            succeeded == pages[n + 1] = "keywords"
            fallback  == ~succeeded /\ site_root # base_url
        IN  /\ Len(pages) = Len(fetched)
            /\ fetched[1] = base_url
            /\ \A i \in 1..n :
                  fetched[i + 1] = site_root \o
                      <<"/insurance", "/billing", "/patient-information", "/payment">>[i]
            /\ succeeded <=> found_insurance_page
            /\ Len(fetched) = IF fallback THEN n + 2 ELSE n + 1
            /\ fallback => fetched[n + 2] = site_root

\* a deep url whose first fetch raised and whose second sub-path had a
\* keyword, and a run on it that fell back to the site root after a raise
C16_Witness ==
    /\ script = "site" /\ wpc = "returned"
    /\ site_root # base_url
    /\ pages[1] = "raised" /\ pages[2] = "raised"
    /\ \/ Len(pages) = 3 /\ pages[3] = "keywords" /\ crawl_result = "content"
       \/ Len(pages) = 6 /\ pages[5] = "raised" /\ fetched[6] = site_root

\* every entry the checkpoint held at start is in the checkpoint, unchanged,
\* and every other entry is the result of a task of this run
StoredEntriesKept ==
    script = "crawl" =>
        /\ \A id \in StoredIds :
              /\ id \in DOMAIN results_file.content
              /\ results_file.content[id] = file_at_start.content[id]
        /\ \A id \in DOMAIN results_file.content \ StoredIds :
              /\ id \in DOMAIN tasks /\ tasks[id].pc = "done"
              /\ results_file.content[id] = result_entry(id, tasks[id].outcome)

\* C17: every entry of the checkpoint at start is, unchanged, in every
\* checkpoint the run writes, a run adds entries only for clinic ids absent
\* at start, and no save makes the set of clinic ids of the checkpoint smaller.
C17_CheckpointOnlyGrows ==
    [][/\ StoredEntriesKept'
       /\ DOMAIN results_file.content \subseteq DOMAIN results_file'.content]_vars

\* two saves were made on a checkpoint that held an entry at start, and the
\* checkpoint holds that entry and a new one
C17_Witness ==
    /\ script = "crawl" /\ results_file.writes >= 2
    /\ StoredIds # {}
    /\ DOMAIN results_file.content \ StoredIds # {}
    /\ \A id \in StoredIds : results_file.content[id] = StoredEntry(id)

\* C18: every entry of the abbreviation dictionary is applied: a street-type
\* or directional word after a space is replaced by its abbreviation, "street"
\* by "st", "avenue" by "ave", and the compound directionals "northwest",
\* "northeast", "southwest", "southeast" by "nw", "ne", "sw", "se".
C18_EveryAbbreviationApplied ==
    (nfun = "address" /\ nout # <<>>) =>
        /\ nraw = "1 Main street" => nout[1] = "1 main st"
        /\ nraw = "12 Oak Avenue" => nout[1] = "12 oak ave"
        /\ nraw = "12 Oak Northwest" => nout[1] = "12 oak nw"
        /\ nraw = "12 Oak Northeast" => nout[1] = "12 oak ne"
        /\ nraw = "12 Oak Southwest" => nout[1] = "12 oak sw"
        /\ nraw = "12 Oak Southeast" => nout[1] = "12 oak se"
        /\ find(lower(nraw), " northwest", 1) > 0 => find(nout[1], "nwest", 1) = 0

\* the run is over: every remaining clinic's task acquired the semaphore and
\* finished, every permit is back, and every batch was saved
RunOver ==
    /\ cpc = "done"
    /\ \A id \in Range(remaining) : id \in DOMAIN tasks /\ tasks[id].pc = "done"
    /\ remaining # <<>> =>
          /\ semaphore = args.max_concurrent
          /\ batch_start >= Len(remaining)
          /\ results_file.writes * args.batch_size >= Len(remaining)

\* C19: with max_concurrent >= 1 (batch_size is at least 1 in every run), a
\* run in which every fetch and model call returns or raises always reaches
\* its end: every launched task gets the semaphore and finishes, every permit
\* is given back whichever way the task ended, every batch is saved.
C19_RunTerminates ==
    (script = "crawl" /\ cpc = "start" /\ args.max_concurrent >= 1) ~> RunOver

\* a finished run of one permit and a batch of several tasks, one of which
\* raised, one returned an error-tagged result and one a record
C19_Witness ==
    /\ script = "crawl" /\ RunOver /\ args.max_concurrent = 1 /\ args.batch_size >= 2
    /\ \E a, b, c \in Range(remaining) :
          /\ tasks[a].outcome = "exception"
          /\ tasks[b].outcome = "no_content"
          /\ tasks[c].outcome = "record"

====
